---- MODULE Spec2Model ----
(***************************************************************************)
(* The projection engine of interest-expense: ProjectionEngine.run and the *)
(* functions it calls (compute_interest, compute_redemptions,              *)
(* update_state), with the rate and issuance providers it queries.         *)
(*                                                                         *)
(* Numbers.  A Python float is modelled as an exact rational               *)
(* [n |-> numerator, d |-> denominator] in lowest terms, d > 0, or one of  *)
(* the three non-finite floats: NaN = 0/0, +inf = 1/0, -inf = -1/0.        *)
(* Arithmetic is the exact arithmetic of the reals, extended by the IEEE   *)
(* rules for NaN and the infinities; the rounding of a double is not       *)
(* modelled.  Numerators and denominators are held within RepMax; a result *)
(* that does not fit is Unrep, and a month whose amounts are Unrep is not  *)
(* explored (the run is not continued).                                    *)
(*                                                                         *)
(* Time.  A timestamp is a natural number of half-months: timestamps 2m    *)
(* and 2m+1 lie in month m, and 2m is the month start.                     *)
(***************************************************************************)
EXTENDS Integers, Sequences, FiniteSets, TLC

VARIABLES
    engine,      \* the ProjectionEngine: [rates_provider, issuance_policy]
    args,        \* the arguments every call of run is given
    pc,          \* "idle" | "loop" | "returned" | "raised"
    idx,         \* run: the normalised month index
    rates,       \* run: the table the rates provider returned
    shares,      \* run: the table the issuance policy returned
    deficits,    \* run: deficits_monthly reindexed and zero-filled
    other,       \* run: other_interest_monthly reindexed and zero-filled
    rows,        \* run: the rows appended so far
    state,       \* run: the DebtState of the current month
    pos,         \* run: how many months of idx the loop has taken
    result,      \* what the last call handed to its caller: a trace or None
    error,       \* the exception the last call raised, or "none"
    disk,        \* output/diagnostics/monthly_trace: the persisted trace or None
    issued,      \* run: new_short, new_nb, new_tips of each month taken
    calls,       \* how many times run has been called
    prev,        \* what the call before the last one handed back (None at first)
    heap,        \* run: the DebtState objects of the call, the caller's first
    fs,          \* the directories that exist under the base output directory
    procs,       \* create_run_directory: each caller's position and locals
    returned     \* create_run_directory: the paths returned so far, in order

vars == <<engine, args, pc, idx, rates, shares, deficits, other, rows, state,
          pos, result, error, disk, issued, calls, prev, heap, fs, procs,
          returned>>

\* the variables of create_run_directory, which run does not touch
dirs == <<fs, procs, returned>>

-----------------------------------------------------------------------------
(* Bounds *)

\* the longest month index run is called with
MaxMonths == 3
\* how many times run is called on one engine
MaxCalls == 2
\* the largest numerator or denominator a modelled float holds
RepMax == 536870911
\* the longest month index a provider or policy is queried with on its own
MaxQuery == 4
\* how many times create_run_directory is called on one base directory
MaxDirCalls == 3

-----------------------------------------------------------------------------
(* Floats *)

None == [none |-> TRUE]

Abs(x) == IF x < 0 THEN -x ELSE x
Sign(x) == IF x < 0 THEN -1 ELSE IF x = 0 THEN 0 ELSE 1

RECURSIVE GCD(_, _)
GCD(a, b) == IF b = 0 THEN a ELSE GCD(b, a % b)

NaN == [n |-> 0, d |-> 0]
PosInf == [n |-> 1, d |-> 0]
NegInf == [n |-> -1, d |-> 0]
Unrep == [n |-> 0, d |-> -1]

\* the float num/den, den > 0
Q(num, den) ==
    LET g == GCD(Abs(num), den)
    IN  [n |-> num \div g, d |-> den \div g]

Zero == Q(0, 1)
One == Q(1, 1)

\* math.isfinite
IsFinite(a) == a.d > 0
IsRep(a) == a.d >= 0

\* x * y stays within RepMax
Fits(x, y) == x = 0 \/ Abs(y) <= RepMax \div Abs(x)

FNeg(a) == IF a.d < 0 THEN Unrep ELSE [n |-> -a.n, d |-> a.d]

FAdd(a, b) ==
    IF a.d < 0 \/ b.d < 0 THEN Unrep
    ELSE IF a = NaN \/ b = NaN THEN NaN
    ELSE IF a.d = 0 /\ b.d = 0 THEN (IF a = b THEN a ELSE NaN)
    ELSE IF a.d = 0 THEN a
    ELSE IF b.d = 0 THEN b
    ELSE LET g == GCD(a.d, b.d)
             ad == a.d \div g
             bd == b.d \div g
         IN  IF Fits(a.n, bd) /\ Fits(b.n, ad) /\ Fits(ad, b.d)
             THEN LET num == a.n * bd + b.n * ad
                  IN  IF Abs(num) <= RepMax THEN Q(num, ad * b.d) ELSE Unrep
             ELSE Unrep

FSub(a, b) == FAdd(a, FNeg(b))

FMul(a, b) ==
    IF a.d < 0 \/ b.d < 0 THEN Unrep
    ELSE IF a.d = 0 \/ b.d = 0 THEN [n |-> Sign(a.n) * Sign(b.n), d |-> 0]
    ELSE LET g1 == GCD(Abs(a.n), b.d)
             g2 == GCD(Abs(b.n), a.d)
             n1 == a.n \div g1
             n2 == b.n \div g2
             d1 == a.d \div g2
             d2 == b.d \div g1
         IN  IF Fits(n1, n2) /\ Fits(d1, d2)
             THEN [n |-> n1 * n2, d |-> d1 * d2]
             ELSE Unrep

\* a / k for an integer constant k > 0
FDivInt(a, k) == FMul(a, Q(1, k))

FAbs(a) == IF a.d < 0 THEN Unrep ELSE [n |-> Abs(a.n), d |-> a.d]

\* a <= b as floats compare: false when either is NaN
FLe(a, b) ==
    /\ a # NaN /\ b # NaN
    /\ \/ a = b
       \/ LET diff == FSub(b, a) IN diff.d >= 0 /\ diff.n > 0

\* a > 1/den, for a finite a >= 0 and an integer den > 0
FGtUnitFraction(a, den) == a.n > a.d \div den


-----------------------------------------------------------------------------
(* Timestamps and month indexes *)

\* pd.Timestamp(...).to_period("M").to_timestamp(): the start of t's month
ToMonthStart(t) == t - (t % 2)

\* pd.DatetimeIndex(index).to_period("M").to_timestamp(), element by element
NormaliseIndex(index) == [i \in 1..Len(index) |-> ToMonthStart(index[i])]

\* build_month_index(anchor_date, horizon_months): consecutive month starts
build_month_index(anchor_date, horizon_months) ==
    [i \in 1..horizon_months |-> ToMonthStart(anchor_date) + 2 * (i - 1)]

\* the calendar: timestamp 0 is the first day of August 2025, so that months
\* 0 and 1 are August and September 2025 and month 2 is October 2025
Epoch == [year |-> 2025, month |-> 8]

\* ts.year and ts.month of a timestamp
YearOf(ts) == Epoch.year + ((ts \div 2) + Epoch.month - 1) \div 12
MonthOfYear(ts) == (((ts \div 2) + Epoch.month - 1) % 12) + 1

\* the calendar year taken for the fiscal year (a mutant)
FiscalYearIsCalendarYear(ts) == YearOf(ts)

\* fiscal_year(ts): year + 1 if month >= 10 else year
fiscal_year(ts) == IF MonthOfYear(ts) >= 10 THEN YearOf(ts) + 1 ELSE YearOf(ts)

\* table.loc[dt]: the rows of a table labelled dt, in table order
Loc(table, dt) == SelectSeq(table, LAMBDA r : r.date = dt)

Raise(exc) == [ok |-> FALSE, error |-> exc]
Return(v) == [ok |-> TRUE, value |-> v]

-----------------------------------------------------------------------------
(* macro/rates.py *)

\* ConstantRatesProvider(values): a frozen dataclass, nothing is checked
ConstantRatesProvider(values) == Return([kind |-> "constant", values |-> values])

\* ConstantRatesProvider.get without the math.isfinite check (a mutant)
ConstantRatesGetUnchecked(self, index) ==
    LET ix == NormaliseIndex(index)
    IN  Return([i \in 1..Len(ix) |->
            [date |-> ix[i], short |-> self.values.short, nb |-> self.values.nb,
             tips |-> self.values.tips]])

\* ConstantRatesProvider.get: one row of the construction rates per month of
\* the index; ValueError when a rate is not finite
ConstantRatesGet(self, index) ==
    LET ix == NormaliseIndex(index)
        data == self.values
    IN  IF ~(IsFinite(data.short) /\ IsFinite(data.nb) /\ IsFinite(data.tips))
        THEN Raise("ValueError")
        ELSE Return([i \in 1..Len(ix) |->
                 [date |-> ix[i], short |-> data.short, nb |-> data.nb,
                  tips |-> data.tips]])

\* _assert_finite(df): nothing for a table without rows; otherwise the check
\* is pd.isfinite(...).all(), and reading pd.isfinite raises AttributeError
\* where the installed pandas exports no such name (pd_isfinite is whether it
\* does)
_assert_finite(df, pd_isfinite) ==
    IF df = <<>> THEN Return(df)
    ELSE IF ~pd_isfinite THEN Raise("AttributeError")
    ELSE IF \E i \in 1..Len(df) :
                ~(IsFinite(df[i].short) /\ IsFinite(df[i].nb) /\ IsFinite(df[i].tips))
    THEN Raise("ValueError")
    ELSE Return(df)

\* sort_values("date"): a stable insertion of row into the sorted table
RECURSIVE InsertByDate(_, _)
InsertByDate(table, row) ==
    IF table = <<>> THEN <<row>>
    ELSE IF table[Len(table)].date <= row.date THEN Append(table, row)
    ELSE Append(InsertByDate(SubSeq(table, 1, Len(table) - 1), row),
                table[Len(table)])

RECURSIVE SortByDate(_)
SortByDate(table) ==
    IF table = <<>> THEN <<>>
    ELSE InsertByDate(SortByDate(SubSeq(table, 1, Len(table) - 1)),
                      table[Len(table)])

\* MonthlyCSVRateProvider(path): __post_init__ reads the rows of the file,
\* moves each date to its month start, sorts by date and checks finiteness
MonthlyCSVRateProvider(csv, pd_isfinite) ==
    LET df == SortByDate([i \in 1..Len(csv) |->
                  [date |-> ToMonthStart(csv[i].date), short |-> csv[i].short,
                   nb |-> csv[i].nb, tips |-> csv[i].tips]])
        chk == _assert_finite(df, pd_isfinite)
    IN  IF ~chk.ok THEN chk
        ELSE Return([kind |-> "csv", _df |-> df, pd_isfinite |-> pd_isfinite])

\* MonthlyCSVRateProvider.get with the table reindexed to the index and the
\* months it lacks filled with 0.0 (a mutant)
MonthlyCSVGetDefaulted(self, index) ==
    LET ix == NormaliseIndex(index)
        zero(d) == [date |-> d, short |-> Zero, nb |-> Zero, tips |-> Zero]
    IN  Return([i \in 1..Len(ix) |->
            IF Loc(self._df, ix[i]) = <<>> THEN zero(ix[i])
            ELSE Loc(self._df, ix[i])[1]])

\* MonthlyCSVRateProvider.get: ValueError when a month of the index is not in
\* the table; otherwise the table's rows for the months of the index, in index
\* order, checked for finiteness
MonthlyCSVGet(self, index) ==
    LET ix == NormaliseIndex(index)
        missing == { ix[i] : i \in 1..Len(ix) } \
                       { self._df[j].date : j \in 1..Len(self._df) }
        RECURSIVE Rows(_)
        Rows(i) == IF i > Len(ix) THEN <<>>
                   ELSE Loc(self._df, ix[i]) \o Rows(i + 1)
    IN  IF missing # {} THEN Raise("ValueError")
        ELSE _assert_finite(Rows(1), self.pd_isfinite)

\* FiscalYearVariableRatesProvider(values), values[bucket] a map from fiscal
\* year to rate: a bucket without any rate is a configuration error
FiscalYearVariableRatesProvider(values) ==
    IF \E b \in {"short", "nb", "tips"} : DOMAIN values[b] = {}
    THEN Raise("ValueError")
    ELSE Return([kind |-> "fiscal_year", values |-> values])

\* the rate of fiscal year fy in a bucket's map: the year's own rate, else the
\* rate of the last earlier year of the map, else the rate of the map's
\* earliest year
FiscalYearRate(by_year, fy) ==
    LET known == DOMAIN by_year
        earlier == { y \in known : y < fy }
    IN  IF fy \in known THEN by_year[fy]
        ELSE IF earlier # {}
        THEN by_year[CHOOSE y \in earlier : \A z \in earlier : z <= y]
        ELSE by_year[CHOOSE y \in known : \A z \in known : y <= z]

\* FiscalYearVariableRatesProvider.get: per month the rates of its fiscal year
FiscalYearVariableGet(self, index) ==
    LET ix == NormaliseIndex(index)
    IN  Return([i \in 1..Len(ix) |->
            [date |-> ix[i],
             short |-> FiscalYearRate(self.values.short, fiscal_year(ix[i])),
             nb |-> FiscalYearRate(self.values.nb, fiscal_year(ix[i])),
             tips |-> FiscalYearRate(self.values.tips, fiscal_year(ix[i]))]])

\* rates_provider.get(idx), dispatched on the provider's class
RatesGet(provider, index) ==
    IF provider.kind = "constant" THEN ConstantRatesGet(provider, index)
    ELSE IF provider.kind = "csv" THEN MonthlyCSVGet(provider, index)
    ELSE FiscalYearVariableGet(provider, index)

-----------------------------------------------------------------------------
(* macro/issuance.py *)

\* the 1e-6 of abs(total - 1.0) > 1e-6, as 1/ShareTolDen
ShareTolDen == 1000000

\* _validate_shares_dict without the sum check (a mutant)
ValidateSharesNoSum(values) ==
    IF \E v \in {values.short, values.nb, values.tips} :
           ~(FLe(Zero, v) /\ FLe(v, One)) \/ ~IsFinite(v)
    THEN Raise("ValueError")
    ELSE Return(<<values.short, values.nb, values.tips>>)

\* _validate_shares_dict without the bounds and finiteness check (a mutant)
ValidateSharesSumOnly(values) ==
    IF FGtUnitFraction(FAbs(FSub(FAdd(FAdd(values.short, values.nb), values.tips), One)),
                       ShareTolDen)
    THEN Raise("ValueError")
    ELSE Return(<<values.short, values.nb, values.tips>>)

\* _validate_shares_dict: each share in [0,1] and finite, the sum 1 within 1e-6
_validate_shares_dict(values) ==
    LET s == values.short
        n == values.nb
        t == values.tips
        total == FAdd(FAdd(s, n), t)
    IN  IF \E v \in {s, n, t} : ~(FLe(Zero, v) /\ FLe(v, One)) \/ ~IsFinite(v)
        THEN Raise("ValueError")
        ELSE IF FGtUnitFraction(FAbs(FSub(total, One)), ShareTolDen)
        THEN Raise("ValueError")
        ELSE Return(<<s, n, t>>)

\* FixedSharesPolicy(short, nb, tips): __post_init__ validates the shares
FixedSharesPolicy(short, nb, tips) ==
    LET v == _validate_shares_dict([short |-> short, nb |-> nb, tips |-> tips])
    IN  IF ~v.ok THEN v
        ELSE Return([kind |-> "fixed", short |-> short, nb |-> nb, tips |-> tips])

\* FixedSharesPolicy.get: the same row for every month of the index
FixedSharesGet(self, index) ==
    LET ix == NormaliseIndex(index)
    IN  Return([i \in 1..Len(ix) |->
            [date |-> ix[i], short |-> self.short, nb |-> self.nb,
             tips |-> self.tips]])

\* an insertion before the segments of the same start: a sort that reverses
\* the list order of equal starts (a mutant)
RECURSIVE InsertBeforeEqual(_, _)
InsertBeforeEqual(segs, seg) ==
    IF segs = <<>> THEN <<seg>>
    ELSE IF segs[Len(segs)].start < seg.start THEN Append(segs, seg)
    ELSE Append(InsertBeforeEqual(SubSeq(segs, 1, Len(segs) - 1), seg), segs[Len(segs)])

\* list.sort(key=start): a stable insertion of seg into the sorted list segs
RECURSIVE InsertByStart(_, _)
InsertByStart(segs, seg) ==
    IF segs = <<>> THEN <<seg>>
    ELSE IF segs[Len(segs)].start <= seg.start THEN Append(segs, seg)
    ELSE Append(InsertByStart(SubSeq(segs, 1, Len(segs) - 1), seg), segs[Len(segs)])

RECURSIVE SortByStart(_)
SortByStart(segs) ==
    IF segs = <<>> THEN <<>>
    ELSE InsertByStart(SortByStart(SubSeq(segs, 1, Len(segs) - 1)), segs[Len(segs)])

\* PiecewiseSharesPolicy(segments): __post_init__ normalises each start to its
\* month start, validates each segment's shares, and sorts by start (stable)
PiecewiseSharesPolicy(segments) ==
    IF \E i \in 1..Len(segments) : ~_validate_shares_dict(segments[i]).ok
    THEN Raise("ValueError")
    ELSE Return([kind |-> "piecewise",
                 segments |-> segments,
                 _segments |-> SortByStart(
                     [i \in 1..Len(segments) |->
                         [start |-> ToMonthStart(segments[i].start),
                          snt |-> _validate_shares_dict(segments[i]).value]])])

\* the inner loop stopping at the first segment whose start is not after d
\* (a mutant)
PickFirst(segs, d, pick) ==
    IF segs = <<>> \/ segs[1].start > d THEN pick ELSE [snt |-> segs[1].snt]

\* the inner loop of PiecewiseSharesPolicy.get: the last segment, in sorted
\* order, before the first one whose start is after d; None when there is none
RECURSIVE PickFrom(_, _, _)
PickFrom(segs, d, pick) ==
    IF segs = <<>> THEN pick
    ELSE IF segs[1].start <= d THEN PickFrom(Tail(segs), d, [snt |-> segs[1].snt])
    ELSE pick

\* PiecewiseSharesPolicy.get leaving the months before every start without
\* shares, NaN in the frame (a mutant)
PiecewiseSharesGetNoBackfill(self, index) ==
    LET ix == NormaliseIndex(index)
        segs == self._segments
        pick(d) == PickFrom(segs, d, None)
        snt(d) == IF pick(d) = None THEN <<NaN, NaN, NaN>> ELSE pick(d).snt
    IN  Return([i \in 1..Len(ix) |->
            [date |-> ix[i], short |-> snt(ix[i])[1], nb |-> snt(ix[i])[2],
             tips |-> snt(ix[i])[3]]])

\* PiecewiseSharesPolicy.get: per month the picked segment, or the first
\* segment for a month before every start (values[0]: IndexError when there
\* is no segment at all)
PiecewiseSharesGet(self, index) ==
    LET ix == NormaliseIndex(index)
        segs == self._segments
        pick(d) == PickFrom(segs, d, None)
        snt(d) == IF pick(d) = None THEN segs[1].snt ELSE pick(d).snt
    IN  IF segs = <<>> /\ Len(ix) > 0 THEN Raise("IndexError")
        ELSE Return([i \in 1..Len(ix) |->
                 [date |-> ix[i], short |-> snt(ix[i])[1], nb |-> snt(ix[i])[2],
                  tips |-> snt(ix[i])[3]]])

\* issuance_policy.get(idx), dispatched on the policy's class
PolicyGet(policy, index) ==
    IF policy.kind = "fixed" THEN FixedSharesGet(policy, index)
    ELSE PiecewiseSharesGet(policy, index)


-----------------------------------------------------------------------------
(* engine/state.py, engine/accrual.py, engine/transitions.py *)

DebtState(stock_short, stock_nb, stock_tips) ==
    [stock_short |-> stock_short, stock_nb |-> stock_nb, stock_tips |-> stock_tips]

\* the 12.0 of rate / 12.0
MonthsPerYear == 12

\* compute_interest with the total taken at the provider's rates, whatever the
\* overrides (a mutant)
ComputeInterestTotalAtMarket(st, rates_row, coupon_nb_existing_annual, coupon_tips_existing_annual) ==
    LET r_short_m == FDivInt(rates_row.short, MonthsPerYear)
        r_nb_m == FDivInt(IF coupon_nb_existing_annual # None
                          THEN coupon_nb_existing_annual ELSE rates_row.nb,
                          MonthsPerYear)
        r_tips_m == FDivInt(IF coupon_tips_existing_annual # None
                            THEN coupon_tips_existing_annual ELSE rates_row.tips,
                            MonthsPerYear)
        i_short == FMul(st.stock_short, r_short_m)
    IN  [interest_short |-> i_short,
         interest_nb |-> FMul(st.stock_nb, r_nb_m),
         interest_tips |-> FMul(st.stock_tips, r_tips_m),
         interest_total |->
             FAdd(FAdd(i_short,
                       FMul(st.stock_nb, FDivInt(rates_row.nb, MonthsPerYear))),
                  FMul(st.stock_tips, FDivInt(rates_row.tips, MonthsPerYear)))]

\* compute_interest taking an override of 0.0 for an absent one, 'if coupon'
\* for 'if coupon is not None' (a mutant)
ComputeInterestTruthyOverride(st, rates_row, coupon_nb_existing_annual, coupon_tips_existing_annual) ==
    LET given(c) == c # None /\ c # Zero
        r_short_m == FDivInt(rates_row.short, MonthsPerYear)
        r_nb_m == FDivInt(IF given(coupon_nb_existing_annual)
                          THEN coupon_nb_existing_annual ELSE rates_row.nb,
                          MonthsPerYear)
        r_tips_m == FDivInt(IF given(coupon_tips_existing_annual)
                            THEN coupon_tips_existing_annual ELSE rates_row.tips,
                            MonthsPerYear)
        i_short == FMul(st.stock_short, r_short_m)
        i_nb == FMul(st.stock_nb, r_nb_m)
        i_tips == FMul(st.stock_tips, r_tips_m)
    IN  [interest_short |-> i_short,
         interest_nb |-> i_nb,
         interest_tips |-> i_tips,
         interest_total |-> FAdd(FAdd(i_short, i_nb), i_tips)]

\* compute_interest: stock x (annual rate / 12) per bucket, the nb and tips
\* rates replaced by the existing-coupon overrides when these are not None
compute_interest(st, rates_row, coupon_nb_existing_annual, coupon_tips_existing_annual) ==
    LET r_short_m == FDivInt(rates_row.short, MonthsPerYear)
        r_nb_m == FDivInt(IF coupon_nb_existing_annual # None
                          THEN coupon_nb_existing_annual ELSE rates_row.nb,
                          MonthsPerYear)
        r_tips_m == FDivInt(IF coupon_tips_existing_annual # None
                            THEN coupon_tips_existing_annual ELSE rates_row.tips,
                            MonthsPerYear)
        i_short == FMul(st.stock_short, r_short_m)
        i_nb == FMul(st.stock_nb, r_nb_m)
        i_tips == FMul(st.stock_tips, r_tips_m)
    IN  [interest_short |-> i_short,
         interest_nb |-> i_nb,
         interest_tips |-> i_tips,
         interest_total |-> FAdd(FAdd(i_short, i_nb), i_tips)]

\* compute_redemptions: the whole short stock, a decay fraction of nb and tips
compute_redemptions(st, decay_nb, decay_tips) ==
    <<st.stock_short, FMul(st.stock_nb, decay_nb), FMul(st.stock_tips, decay_tips)>>

\* update_state that adds the issuance without redeeming (a mutant)
UpdateStateNoRedemption(st, new_short, new_nb, new_tips, decay_nb, decay_tips) ==
    DebtState(FAdd(st.stock_short, new_short),
              FAdd(st.stock_nb, new_nb),
              FAdd(st.stock_tips, new_tips))

\* update_state with the short stock decaying like nb instead of redeeming
\* whole (a mutant)
UpdateStateShortDecays(st, new_short, new_nb, new_tips, decay_nb, decay_tips) ==
    LET r == compute_redemptions(st, decay_nb, decay_tips)
    IN  DebtState(FAdd(FSub(st.stock_short, FMul(st.stock_short, decay_nb)), new_short),
                  FAdd(FSub(st.stock_nb, r[2]), new_nb),
                  FAdd(FSub(st.stock_tips, r[3]), new_tips))

\* update_state redeeming nb at the tips decay and tips at the nb decay (a
\* mutant)
UpdateStateSwappedDecays(st, new_short, new_nb, new_tips, decay_nb, decay_tips) ==
    LET r == compute_redemptions(st, decay_tips, decay_nb)
    IN  DebtState(FAdd(FSub(st.stock_short, r[1]), new_short),
                  FAdd(FSub(st.stock_nb, r[2]), new_nb),
                  FAdd(FSub(st.stock_tips, r[3]), new_tips))

\* update_state: a new DebtState, stock - redemption + new issuance per bucket
update_state(st, new_short, new_nb, new_tips, decay_nb, decay_tips) ==
    LET r == compute_redemptions(st, decay_nb, decay_tips)
    IN  DebtState(FAdd(FSub(st.stock_short, r[1]), new_short),
                  FAdd(FSub(st.stock_nb, r[2]), new_nb),
                  FAdd(FSub(st.stock_tips, r[3]), new_tips))


-----------------------------------------------------------------------------
(* engine/project.py: ProjectionEngine.run *)

\* series.reindex(ix).fillna(0.0): the series' value at each month of ix, 0.0
\* where the series has no value or holds NaN
Reindex(series, ix) ==
    [m \in {ix[i] : i \in 1..Len(ix)} |->
        IF m \in DOMAIN series /\ series[m] # NaN THEN series[m] ELSE Zero]

\* an exception in the loop body handled by returning the rows so far (a mutant)
ReturnPartial(partial) == [df |-> partial]

\* an exception in the loop body: nothing in run catches it, so the call hands
\* nothing back whatever rows it has appended
Propagate(partial) == None

\* pd.Series(index=idx), without the 0.0: a series of NaN (a mutant)
DefaultOtherNaN(ix) == [m \in {ix[i] : i \in 1..Len(ix)} |-> NaN]

\* pd.Series(0.0, index=idx): the other-interest series of a call without one
DefaultOther(ix) == [m \in {ix[i] : i \in 1..Len(ix)} |-> Zero]

\* update_state writing the new stocks into the object it was given (a mutant)
SameInstance(objects, obj) == [objects EXCEPT ![Len(objects)] = obj]

\* DebtState(...) in update_state: a new object; the objects that exist,
\* the one passed in included, keep their fields
NewInstance(objects, obj) == Append(objects, obj)

\* the rows list of the previous call, kept (a mutant)
StaleRows == rows

\* rows = []
FreshRows == <<>>

\* the loop takes the months from the last to the first (a mutant)
MonthOfReversed(ix, p) == ix[Len(ix) - p]

\* the loop never leaves the first month (a mutant)
MonthOfFirst(ix, p) == ix[1]

\* for dt in idx: the month the loop takes after p months
MonthOf(ix, p) == ix[p + 1]

\* gfn without the redemptions: issuance that does not refinance them (a mutant)
GfnNoRedemptions(deficit, interest_total, other_interest, red_total) ==
    FAdd(FAdd(deficit, interest_total), other_interest)

\* gfn without the other-interest term (a mutant)
GfnNoOther(deficit, interest_total, other_interest, red_total) ==
    FAdd(FAdd(deficit, interest_total), red_total)

\* gfn = deficit + interest_total + other_interest + red_total
Gfn(deficit, interest_total, other_interest, red_total) ==
    FAdd(FAdd(FAdd(deficit, interest_total), other_interest), red_total)

\* no issuance when the financing need is negative (a mutant)
NewIssuanceClamped(share, gfn) ==
    IF gfn.d >= 0 /\ gfn.n < 0 THEN Zero ELSE FMul(share, gfn)

\* new_b = float(sh_row[b]) * gfn
NewIssuance(share, gfn) == FMul(share, gfn)

\* the dict appended to rows
TraceRow(dt, st, acc, other_interest, sh_row, gfn, red, red_total) ==
    [date |-> dt,
     stock_short |-> st.stock_short,
     stock_nb |-> st.stock_nb,
     stock_tips |-> st.stock_tips,
     interest_short |-> acc.interest_short,
     interest_nb |-> acc.interest_nb,
     interest_tips |-> acc.interest_tips,
     interest_total |-> acc.interest_total,
     other_interest |-> other_interest,
     shares_short |-> sh_row.short,
     shares_nb |-> sh_row.nb,
     shares_tips |-> sh_row.tips,
     gfn |-> gfn,
     redemptions_short |-> red[1],
     redemptions_nb |-> red[2],
     redemptions_tips |-> red[3],
     redemptions_total |-> red_total]

FloatFields ==
    {"stock_short", "stock_nb", "stock_tips", "interest_short", "interest_nb",
     "interest_tips", "interest_total", "other_interest", "shares_short",
     "shares_nb", "shares_tips", "gfn", "redemptions_short", "redemptions_nb",
     "redemptions_tips", "redemptions_total"}

\* every amount of the month fits the modelled floats
MonthIsRep(row, new, nxt) ==
    /\ \A f \in FloatFields : IsRep(row[f])
    /\ \A i \in 1..3 : IsRep(new[i])
    /\ IsRep(nxt.stock_short) /\ IsRep(nxt.stock_nb) /\ IsRep(nxt.stock_tips)

\* run is called: the index is normalised, both providers are queried and the
\* two series are aligned to the index; a provider's exception ends the call
Call ==
    /\ \/ pc = "idle"
       \/ pc \in {"returned", "raised"} /\ calls < MaxCalls
    /\ calls' = calls + 1
    /\ prev' = result
    /\ result' = None
    /\ LET ix == NormaliseIndex(args.index)
           r == RatesGet(engine.rates_provider, ix)
           sh == PolicyGet(engine.issuance_policy, ix)
       IN  IF ~r.ok \/ ~sh.ok
           THEN /\ pc' = "raised"
                /\ error' = IF ~r.ok THEN r.error ELSE sh.error
                /\ UNCHANGED <<idx, rates, shares, deficits, other, rows, state,
                               pos, issued, heap>>
           ELSE /\ pc' = "loop"
                /\ error' = "none"
                /\ idx' = ix
                /\ rates' = r.value
                /\ shares' = sh.value
                /\ deficits' = Reindex(args.deficits_monthly, ix)
                /\ other' = IF args.other_interest_monthly # None
                            THEN Reindex(args.other_interest_monthly.series, ix)
                            ELSE DefaultOther(ix)
                /\ rows' = FreshRows
                /\ issued' = <<>>
                /\ state' = args.start_state
                /\ heap' = <<args.start_state>>
                /\ pos' = 0
    /\ UNCHANGED <<engine, args, disk>>
    /\ UNCHANGED dirs

\* how many times the trace file has been written
Writes(file) == IF file = None THEN 0 ELSE file.writes

\* lines 83-89: df.to_parquet(out), or df.to_csv when that raises; the two
\* formats are one file here
Persist(file, df) == [df |-> df, writes |-> Writes(file) + 1]

\* a loop body that saved the rows so far every month (a mutant)
LoopBodyCheckpoint(file, rs) == Persist(file, rs)

\* what lines 41-80 do to the trace file: the loop body opens no file
LoopBody(file, rs) == file

\* one iteration of the loop over idx: accrue, redeem, size the issuance by the
\* budget identity, record the row, advance the state
Month ==
    /\ pc = "loop"
    /\ pos < Len(idx)
    /\ LET dt == MonthOf(idx, pos)
           r_rows == Loc(rates, dt)
           sh_rows == Loc(shares, dt)
       IN  IF Len(r_rows) # 1
           THEN \* .loc[dt] is a frame, not a row: float() of a column raises
                /\ pc' = "raised"
                /\ error' = "TypeError"
                /\ result' = Propagate(rows)
                /\ UNCHANGED <<rows, state, pos, issued, heap, disk>>
           ELSE LET r_row == r_rows[1]
                    sh_row == sh_rows[1]
                    acc == compute_interest(state, r_row,
                               args.coupon_nb_existing_annual,
                               args.coupon_tips_existing_annual)
                    red == compute_redemptions(state, args.decay_nb, args.decay_tips)
                    red_total == FAdd(FAdd(red[1], red[2]), red[3])
                    gfn == Gfn(deficits[dt], acc.interest_total, other[dt], red_total)
                    new_short == NewIssuance(sh_row.short, gfn)
                    new_nb == NewIssuance(sh_row.nb, gfn)
                    new_tips == NewIssuance(sh_row.tips, gfn)
                    row == TraceRow(dt, state, acc, other[dt], sh_row, gfn, red, red_total)
                    nxt == update_state(state, new_short, new_nb, new_tips,
                                        args.decay_nb, args.decay_tips)
                IN  /\ MonthIsRep(row, <<new_short, new_nb, new_tips>>, nxt)
                    /\ rows' = Append(rows, row)
                    /\ issued' = Append(issued, <<new_short, new_nb, new_tips>>)
                    /\ state' = nxt
                    /\ heap' = NewInstance(heap, nxt)
                    /\ pos' = pos + 1
                    /\ disk' = LoopBody(disk, Append(rows, row))
                    /\ UNCHANGED <<pc, error, result>>
    /\ UNCHANGED <<engine, args, idx, rates, shares, deficits, other,
                   calls, prev>>
    /\ UNCHANGED dirs

\* after the last month: the frame is built and indexed by date (KeyError when
\* there is no row, hence no date column), written to disk and returned
Finish ==
    /\ pc = "loop"
    /\ pos = Len(idx)
    /\ IF rows = <<>>
       THEN /\ pc' = "raised"
            /\ error' = "KeyError"
            /\ UNCHANGED <<result, disk>>
       ELSE /\ pc' = "returned"
            /\ result' = [df |-> rows]
            /\ disk' = Persist(disk, rows)
            /\ UNCHANGED error
    /\ UNCHANGED <<engine, args, idx, rates, shares, deficits, other, rows,
                   state, pos, issued, calls, prev, heap>>
    /\ UNCHANGED dirs

-----------------------------------------------------------------------------
(* The inputs *)

F(k) == Q(k, 1)
Half == Q(1, 2)
\* a share of 2^-20: less than the 1e-6 tolerance
Eps == Q(1, 1048576)

StartStates ==
    { DebtState(F(4), F(8), F(2)),
      DebtState(F(4), NaN, Zero) }

RateValues ==
    { [short |-> F(3), nb |-> F(6), tips |-> F(3)],
      [short |-> Zero, nb |-> F(-3), tips |-> Zero],
      [short |-> F(3), nb |-> NaN, tips |-> Zero] }

RatesProviders == { [kind |-> "constant", values |-> v] : v \in RateValues }

ShareCandidates ==
    { [short |-> s, nb |-> n, tips |-> t] :
        s \in {Half}, n \in {Half, One}, t \in {Zero, Eps, FNeg(Half)} }

Seg(start, sh) == [start |-> start, short |-> sh.short, nb |-> sh.nb, tips |-> sh.tips]
SharesA == [short |-> Half, nb |-> Half, tips |-> Zero]
SharesB == [short |-> Zero, nb |-> One, tips |-> Eps]
SharesBad == [short |-> Half, nb |-> One, tips |-> Zero]

SegmentLists ==
    { <<>>,
      <<Seg(3, SharesB), Seg(0, SharesA)>>,
      <<Seg(2, SharesA), Seg(2, SharesB)>>,
      <<Seg(0, SharesA), Seg(2, SharesBad)>> }

\* the policy objects whose construction does not raise
Policies ==
    { FixedSharesPolicy(c.short, c.nb, c.tips).value :
        c \in { x \in ShareCandidates : FixedSharesPolicy(x.short, x.nb, x.tips).ok } }
    \cup
    { PiecewiseSharesPolicy(l).value :
        l \in { x \in SegmentLists : PiecewiseSharesPolicy(x).ok } }

Engines ==
    { [rates_provider |-> r, issuance_policy |-> p] :
        r \in RatesProviders, p \in Policies }

MonthStarts == { 2 * m : m \in 0..MaxMonths }

DeficitSeries ==
    { [m \in MonthStarts |-> Zero],
      [m \in {0} |-> F(4)],
      [m \in MonthStarts |-> F(-64)],
      [m \in MonthStarts |-> IF m = 0 THEN NaN ELSE PosInf] }

OtherSeries == { None, [series |-> [m \in MonthStarts |-> F(2)]] }

\* decay_nb, decay_tips, coupon_nb_existing_annual, coupon_tips_existing_annual:
\* the defaults, both overrides with faster decays, the nb override alone
Params ==
    { [decay |-> <<Q(1, 100), Q(1, 100)>>, coupon |-> <<None, None>>],
      [decay |-> <<Half, One>>, coupon |-> <<F(12), F(6)>>],
      [decay |-> <<Q(1, 100), Q(1, 100)>>, coupon |-> <<F(12), None>>] }

\* the month indexes run is called with: the regular ones of build_month_index,
\* every index of at most two timestamps among 0, 1 (month 0) and 2 (month 1),
\* and an index that names month 1 twice after month 0
Indexes ==
    { build_month_index(a, h) : a \in {0}, h \in 0..MaxMonths }
    \cup UNION { [1..k -> 0..2] : k \in 1..2 }
    \cup { <<0, 2, 3>> }

ArgSets ==
    { [index |-> ix, start_state |-> st, deficits_monthly |-> d,
       other_interest_monthly |-> o,
       decay_nb |-> pm.decay[1], decay_tips |-> pm.decay[2],
       coupon_nb_existing_annual |-> pm.coupon[1],
       coupon_tips_existing_annual |-> pm.coupon[2]] :
        ix \in Indexes, st \in StartStates, d \in DeficitSeries, o \in OtherSeries,
        pm \in Params }

\* the rows of a rates CSV file
RateRow(date, short, nb, tips) ==
    [date |-> date, short |-> F(short), nb |-> F(nb), tips |-> F(tips)]

\* rates CSV files: no row; months 1 and 0 in that order, month 1 dated
\* mid-month; every month of the longest index; a file with a NaN rate
CsvFiles ==
    { <<>>,
      <<RateRow(3, 6, 12, 3), RateRow(0, 3, 6, 3)>>,
      [i \in 1..MaxMonths |-> RateRow(2 * (i - 1), 3 * i, 6, 3)],
      <<[date |-> 0, short |-> F(3), nb |-> NaN, tips |-> F(3)]>> }

\* the CSV providers whose construction does not raise, with a pandas that
\* exports isfinite and with one that does not
CsvProviders ==
    { MonthlyCSVRateProvider(c[1], c[2]).value :
        c \in { x \in CsvFiles \X BOOLEAN : MonthlyCSVRateProvider(x[1], x[2]).ok } }

\* the engines of the table-driven rates providers, and the calls made on them
TableEngines ==
    { [rates_provider |-> r, issuance_policy |-> FixedSharesPolicy(Half, Half, Zero).value] :
        r \in CsvProviders }

TableArgSets ==
    { a \in ArgSets :
        /\ a.start_state = DebtState(F(4), F(8), F(2))
        /\ a.deficits_monthly \in { [m \in MonthStarts |-> Zero], [m \in {0} |-> F(4)] }
        /\ a.other_interest_monthly = None
        /\ a.coupon_nb_existing_annual = None
        /\ a.coupon_tips_existing_annual = None }

\* shares that sum to 1 - 2^-20: valid within the 1e-6 tolerance
SharesLow == [short |-> FSub(One, Eps), nb |-> Zero, tips |-> Zero]

\* engines whose rates are all zero and whose shares sum to less than 1, in
\* every month or in the first month only
RollEngines ==
    { [rates_provider |-> ConstantRatesProvider([short |-> Zero, nb |-> Zero, tips |-> Zero]).value,
       issuance_policy |-> p] :
        p \in { FixedSharesPolicy(SharesLow.short, SharesLow.nb, SharesLow.tips).value,
                PiecewiseSharesPolicy(<<Seg(0, SharesLow), Seg(2, SharesA)>>).value } }

\* the calls made on them: no deficit or one in the first month, no other
\* interest, no coupon override, decays 1/2 and 1
RollArgSets ==
    { [index |-> build_month_index(0, h),
       start_state |-> DebtState(F(4), F(8), F(2)),
       deficits_monthly |-> d,
       other_interest_monthly |-> None,
       decay_nb |-> Half, decay_tips |-> One,
       coupon_nb_existing_annual |-> None,
       coupon_tips_existing_annual |-> None] :
        h \in 1..MaxMonths,
        d \in { [m \in MonthStarts |-> Zero], [m \in {0} |-> F(4)] } }

Init ==
    /\ \E sc \in (Engines \X ArgSets) \cup (TableEngines \X TableArgSets)
                  \cup (RollEngines \X RollArgSets) :
           engine = sc[1] /\ args = sc[2]
    /\ pc = "idle"
    /\ idx = <<>>
    /\ rates = <<>>
    /\ shares = <<>>
    /\ deficits = <<>>
    /\ other = <<>>
    /\ rows = <<>>
    /\ issued = <<>>
    /\ state = None
    /\ pos = 0
    /\ result = None
    /\ error = "none"
    /\ disk = None
    /\ calls = 0
    /\ prev = None
    /\ heap = <<>>
    /\ fs = {}
    /\ procs = <<>>
    /\ returned = <<>>

Next == Call \/ Month \/ Finish

Spec == Init /\ [][Next]_vars


-----------------------------------------------------------------------------
(* The providers and the pure functions on their own: an object is constructed
   from its arguments and then queried with a month index; compute_interest
   and update_state are applied to their arguments.  pc is "input", then
   "built" once the constructor returned, then "returned" or "raised". *)

\* cls(ctor): the constructor of the class named cls
New(cls, ctor) ==
    IF cls = "FixedSharesPolicy"
    THEN FixedSharesPolicy(ctor.short, ctor.nb, ctor.tips)
    ELSE IF cls = "PiecewiseSharesPolicy" THEN PiecewiseSharesPolicy(ctor)
    ELSE IF cls = "ConstantRatesProvider" THEN ConstantRatesProvider(ctor)
    ELSE FiscalYearVariableRatesProvider(ctor)

\* obj.get(index)
Get(obj, index) ==
    IF obj.kind \in {"fixed", "piecewise"} THEN PolicyGet(obj, index)
    ELSE RatesGet(obj, index)

\* obj = cls(ctor)
Construct ==
    /\ pc = "input"
    /\ args.op = "get"
    /\ LET c == New(args.cls, args.ctor)
       IN  IF c.ok
           THEN /\ engine' = [object |-> c.value]
                /\ pc' = "built"
                /\ UNCHANGED error
           ELSE /\ pc' = "raised"
                /\ error' = c.error
                /\ UNCHANGED engine
    /\ UNCHANGED <<args, idx, rates, shares, deficits, other, rows, state, pos,
                   result, disk, issued, calls, prev>>
    /\ UNCHANGED <<heap, fs, procs, returned>>

\* obj.get(index)
Query ==
    /\ pc = "built"
    /\ LET r == Get(engine.object, args.index)
       IN  IF r.ok
           THEN /\ result' = [df |-> r.value]
                /\ pc' = "returned"
                /\ UNCHANGED error
           ELSE /\ pc' = "raised"
                /\ error' = r.error
                /\ UNCHANGED result
    /\ UNCHANGED <<engine, args, idx, rates, shares, deficits, other, rows, state,
                   pos, disk, issued, calls, prev>>
    /\ UNCHANGED <<heap, fs, procs, returned>>

\* acc = compute_interest(state, rates_row, coupon_nb_existing_annual=...,
\* coupon_tips_existing_annual=...)
Accrue ==
    /\ pc = "input"
    /\ args.op = "compute_interest"
    /\ result' = [acc |-> compute_interest(args.state, args.rates_row,
                               args.coupon_nb_existing_annual,
                               args.coupon_tips_existing_annual)]
    /\ pc' = "returned"
    /\ UNCHANGED <<engine, args, idx, rates, shares, deficits, other, rows, state,
                   pos, error, disk, issued, calls, prev>>
    /\ UNCHANGED <<heap, fs, procs, returned>>

\* state = update_state(state, new_short, new_nb, new_tips, decay_nb, decay_tips)
Transition ==
    /\ pc = "input"
    /\ args.op = "update_state"
    /\ result' = [state |-> update_state(args.state, args.new[1], args.new[2],
                                 args.new[3], args.decay_nb, args.decay_tips)]
    /\ pc' = "returned"
    /\ UNCHANGED <<engine, args, idx, rates, shares, deficits, other, rows, state,
                   pos, error, disk, issued, calls, prev>>
    /\ UNCHANGED <<heap, fs, procs, returned>>

\* the floats a stock is drawn from, and the opening states made of them
StockFloats == { Zero, F(4), Q(1, 3), F(-4), NaN, PosInf }

OpeningStates ==
    { DebtState(a, b, c) : a \in StockFloats, b \in StockFloats, c \in {Zero, F(2)} }

\* rate rows, and the existing-coupon overrides: absent, 0.0 and a rate
RateRows ==
    { [short |-> F(3), nb |-> F(6), tips |-> F(3)],
      [short |-> Zero, nb |-> F(-3), tips |-> Q(1, 25)] }

\* new_short, new_nb, new_tips
NewIssues ==
    { <<Zero, Zero, Zero>>, <<F(5), Zero, Half>>, <<F(-1), F(5), Zero>>,
      <<F(5), F(5), F(5)>> }

\* the floats a share is drawn from: in and out of [0,1], NaN and +inf
ShareValues == { Zero, Q(1, 4), Half, One, Eps, FNeg(Half), Q(3, 2), NaN, PosInf }

ShareTriples ==
    { [short |-> s, nb |-> n, tips |-> t] :
        s \in ShareValues, n \in ShareValues, t \in ShareValues }

\* the share triples of the segments: two valid ones, one within the tolerance,
\* one with a sum of 3/2, one with a negative share and a sum of 1, one with NaN
SharesC == [short |-> Q(1, 4), nb |-> Half, tips |-> Q(1, 4)]
SegmentShares ==
    { SharesA, SharesB, SharesC, SharesBad,
      [short |-> Half, nb |-> One, tips |-> FNeg(Half)],
      [short |-> NaN, nb |-> Half, tips |-> Half] }

\* the segment lists of at most two segments, and three lists of three
SegmentListsFn ==
    { <<>> }
    \cup { <<Seg(a, x)>> : a \in {0, 3, 4}, x \in SegmentShares }
    \cup { <<Seg(a, x), Seg(b, y)>> :
             a \in {0, 4, 5}, b \in {0, 2, 4}, x \in SegmentShares, y \in SegmentShares }
    \cup { <<Seg(a, SharesA), Seg(b, SharesB), Seg(c, SharesC)>> :
             a \in {0, 4}, b \in {4}, c \in {2, 4} }

QueryIndexes ==
    { build_month_index(a, h) : a \in {0, 3}, h \in 0..MaxQuery }
    \cup { <<4, 0, 5>> }

\* the floats a rate is drawn from
RateFloats == { Zero, F(3), F(-3), Q(1, 25), NaN, PosInf, NegInf }

RateTriples ==
    { [short |-> s, nb |-> n, tips |-> t] :
        s \in RateFloats, n \in RateFloats, t \in RateFloats }

\* maps from fiscal year to rate: both years of the index; the first only;
\* an earlier year only; the second only; years before, between and after;
\* no year
RatesByYear ==
    { (2025 :> F(3)) @@ (2026 :> F(6)),
      (2025 :> F(3)),
      (2024 :> Q(1, 25)),
      (2026 :> F(6)),
      (2020 :> Zero) @@ (2024 :> F(-3)) @@ (2027 :> F(12)),
      <<>> }

FiscalYearValues ==
    { [short |-> s, nb |-> n, tips |-> t] :
        s \in RatesByYear, n \in RatesByYear, t \in RatesByYear }

\* indexes from August 2025 on, and from September 2026 on
FiscalYearIndexes ==
    { build_month_index(a, h) : a \in {0, 3, 26}, h \in 1..MaxQuery }

FnArgs ==
    { [op |-> "compute_interest", state |-> st, rates_row |-> r,
       coupon_nb_existing_annual |-> cn, coupon_tips_existing_annual |-> ct] :
        st \in OpeningStates, r \in RateRows, cn \in {None, Zero, F(12)},
        ct \in {None, Zero, F(6)} }
    \cup
    { [op |-> "update_state", state |-> st, new |-> nw, decay_nb |-> dn,
       decay_tips |-> dt] :
        st \in OpeningStates, nw \in NewIssues,
        dn \in {Zero, Q(1, 100), One, Q(3, 2)}, dt \in {Half, One} }
    \cup
    { [op |-> "get", cls |-> "FiscalYearVariableRatesProvider", ctor |-> v, index |-> ix] :
        v \in FiscalYearValues, ix \in FiscalYearIndexes }
    \cup
    { [op |-> "get", cls |-> "ConstantRatesProvider", ctor |-> v, index |-> ix] :
        v \in RateTriples, ix \in { <<>>, build_month_index(3, 3), <<4, 0, 5>> } }
    \cup
    { [op |-> "get", cls |-> "FixedSharesPolicy", ctor |-> c, index |-> ix] :
        c \in ShareTriples, ix \in { build_month_index(0, 2) } }
    \cup
    { [op |-> "get", cls |-> "PiecewiseSharesPolicy", ctor |-> l, index |-> ix] :
        l \in SegmentListsFn, ix \in QueryIndexes }

InitFn ==
    /\ args \in FnArgs
    /\ engine = None
    /\ pc = "input"
    /\ idx = <<>>
    /\ rates = <<>>
    /\ shares = <<>>
    /\ deficits = <<>>
    /\ other = <<>>
    /\ rows = <<>>
    /\ issued = <<>>
    /\ state = None
    /\ pos = 0
    /\ result = None
    /\ error = "none"
    /\ disk = None
    /\ calls = 0
    /\ prev = None
    /\ heap = <<>>
    /\ fs = {}
    /\ procs = <<>>
    /\ returned = <<>>

NextFn == Construct \/ Query \/ Accrue \/ Transition

SpecFn == InitFn /\ [][NextFn]_vars

-----------------------------------------------------------------------------
(* create_run_directory: callers that share one base output directory *)

\* the callers of create_run_directory that may run at the same time
Callers == {1, 2}

\* base_output_dir, the default
Base == "output"

\* what generate_utc_timestamp can return, and a caller can pass, in the
\* YYYYMMDDTHHMMSSZ format
Timestamps == {"20250910T143015Z", "20250910T143016Z"}

\* the timestamp argument: "" stands for the falsy values (None, ""), for
\* which line 39 takes the clock
TimestampArgs == {""} \cup Timestamps

\* Path.__truediv__: base / name
Join(base, name) == base \o "/" \o name

\* f"{ts}-{suffix}"
AltName(ts, suffix) == ts \o "-" \o ToString(suffix)

\* Path.exists answering False whatever is there (a mutant)
existsNever(path, files) == FALSE

\* Path.exists
exists(path, files) == path \in files

\* Path.mkdir(parents=True, exist_ok=True) where the code asks for
\* exist_ok=False (a mutant)
MkdirExistOk(base, path, files) ==
    [error |-> "none", files |-> files \cup {base, path}]

\* Path.mkdir(parents=True, exist_ok=False): creates the directory and its
\* missing parent, or raises FileExistsError when the path is there
MkdirExclusive(base, path, files) ==
    IF path \in files
    THEN [error |-> "FileExistsError", files |-> files]
    ELSE [error |-> "none", files |-> files \cup {base, path}]

\* the path a caller is about to test or create: candidate, or alt
Target(proc) ==
    IF proc.suffix = 0
    THEN Join(Base, proc.ts)
    ELSE Join(Base, AltName(proc.ts, proc.suffix))

\* a caller that is not inside create_run_directory
Resting == {"idle", "returned", "raised"}

DirCallsMade == procs[1].calls + procs[2].calls

\* lines 36-40: the base directory is made if it is missing, ts is the
\* argument or the clock, and the candidate is base / ts
DirCall ==
    \E p \in Callers, timestamp \in TimestampArgs, now \in Timestamps :
        /\ procs[p].pc \in Resting
        /\ DirCallsMade < MaxDirCalls
        /\ fs' = fs \cup {Base}
        /\ procs' = [q \in Callers |->
                        IF q = p
                        THEN [pc |-> "candidate_exists",
                              ts |-> IF timestamp # "" THEN timestamp ELSE now,
                              suffix |-> 0,
                              calls |-> procs[p].calls + 1,
                              raced |-> \E r \in Callers \ {p} : procs[r].pc \notin Resting,
                              before |-> fs,
                              error |-> "none"]
                        ELSE IF procs[q].pc \notin Resting
                             THEN [procs[q] EXCEPT !.raced = TRUE]
                             ELSE procs[q]]
        /\ UNCHANGED returned

\* line 41 and, when the candidate exists, line 45
CandidateExists ==
    \E p \in Callers :
        /\ procs[p].pc = "candidate_exists"
        /\ procs' = [procs EXCEPT ![p] =
                        IF ~exists(Target(procs[p]), fs)
                        THEN [@ EXCEPT !.pc = "candidate_mkdir"]
                        ELSE [@ EXCEPT !.pc = "alt_exists", !.suffix = 1]]
        /\ UNCHANGED <<fs, returned>>

\* what mkdir and the return after it do for the caller p
MakeAndReturn(p) ==
    LET made == MkdirExclusive(Base, Target(procs[p]), fs) IN
        /\ fs' = made.files
        /\ IF made.error # "none"
           THEN /\ procs' = [procs EXCEPT ![p].pc = "raised", ![p].error = made.error]
                /\ UNCHANGED returned
           ELSE /\ procs' = [procs EXCEPT ![p].pc = "returned"]
                /\ returned' = Append(returned,
                                      [path |-> Target(procs[p]),
                                       ts |-> procs[p].ts,
                                       caller |-> p,
                                       raced |-> procs[p].raced,
                                       before |-> procs[p].before])

\* lines 42-43
CandidateMkdir ==
    \E p \in Callers :
        /\ procs[p].pc = "candidate_mkdir"
        /\ MakeAndReturn(p)

\* lines 47-48 and, when alt exists, line 51
AltExists ==
    \E p \in Callers :
        /\ procs[p].pc = "alt_exists"
        /\ procs' = [procs EXCEPT ![p] =
                        IF ~exists(Target(procs[p]), fs)
                        THEN [@ EXCEPT !.pc = "alt_mkdir"]
                        ELSE [@ EXCEPT !.suffix = @ + 1]]
        /\ UNCHANGED <<fs, returned>>

\* lines 49-50
AltMkdir ==
    \E p \in Callers :
        /\ procs[p].pc = "alt_mkdir"
        /\ MakeAndReturn(p)

\* what the base directory holds before the first call: nothing (the base
\* itself may be missing), earlier runs, or earlier runs with one removed
InitialDirectories ==
    LET T == "20250910T143015Z" IN
        {{},
         {Base},
         {Base, Join(Base, T)},
         {Base, Join(Base, AltName(T, 1))},
         {Base, Join(Base, T), Join(Base, AltName(T, 2))}}

InitDir ==
    /\ fs \in InitialDirectories
    /\ procs = [p \in Callers |->
                   [pc |-> "idle", ts |-> "", suffix |-> 0, calls |-> 0,
                    raced |-> FALSE, before |-> {}, error |-> "none"]]
    /\ returned = <<>>
    /\ args = None
    /\ engine = None
    /\ pc = "idle"
    /\ idx = <<>>
    /\ rates = <<>>
    /\ shares = <<>>
    /\ deficits = <<>>
    /\ other = <<>>
    /\ rows = <<>>
    /\ issued = <<>>
    /\ state = None
    /\ pos = 0
    /\ result = None
    /\ error = "none"
    /\ disk = None
    /\ calls = 0
    /\ prev = None
    /\ heap = <<>>

NextDir ==
    (DirCall \/ CandidateExists \/ CandidateMkdir \/ AltExists \/ AltMkdir)
        /\ UNCHANGED <<engine, args, pc, idx, rates, shares, deficits, other,
                       rows, state, pos, result, error, disk, issued, calls,
                       prev, heap>>

SpecDir == InitDir /\ [][NextDir]_vars

-----------------------------------------------------------------------------
(* The trace a call returned *)

Returned == pc = "returned"
Trace == result.df
Months(t) == 1..Len(t)

RowFinite(row) == \A f \in FloatFields : IsFinite(row[f])
IsNegative(a) == a.d >= 0 /\ a.n < 0

\* the sum of three floats, left to right as Python adds them
Sum3(a, b, c) == FAdd(FAdd(a, b), c)

\* |a - 1| <= 1e-6
WithinShareTol(a) == ~FGtUnitFraction(FAbs(FSub(a, One)), ShareTolDen)

-----------------------------------------------------------------------------
(* C1 - C10 *)

\* C1: in every row of a returned trace, gfn is primary_deficit[month] +
\* interest_total + other_interest[month] + redemptions_total of that row
\* (the deficit and other-interest series as aligned to the index).
C1_BudgetIdentity ==
    Returned =>
        \A i \in Months(Trace) :
            Trace[i].gfn =
                FAdd(FAdd(FAdd(deficits[Trace[i].date], Trace[i].interest_total),
                          other[Trace[i].date]),
                     Trace[i].redemptions_total)

\* a returned trace of two months or more, with a deficit, other interest,
\* interest and redemptions that are all finite and not zero
C1_Witness ==
    /\ Returned
    /\ Len(Trace) >= 2
    /\ \A i \in Months(Trace) :
        /\ RowFinite(Trace[i])
        /\ deficits[Trace[i].date] # Zero
        /\ Trace[i].other_interest # Zero
        /\ Trace[i].interest_total # Zero
        /\ Trace[i].redemptions_total # Zero

\* C2: row 1 of a returned trace holds the caller's start_state, and each
\* later row holds, per bucket, the stock of the row before it minus that
\* row's redemption plus that row's share x that row's gfn.
C2_OpeningIsPreviousClosing ==
    Returned =>
        /\ Trace[1].stock_short = args.start_state.stock_short
        /\ Trace[1].stock_nb = args.start_state.stock_nb
        /\ Trace[1].stock_tips = args.start_state.stock_tips
        /\ \A i \in 1..(Len(Trace) - 1) :
            /\ Trace[i + 1].stock_short =
                   FAdd(FSub(Trace[i].stock_short, Trace[i].redemptions_short),
                        FMul(Trace[i].shares_short, Trace[i].gfn))
            /\ Trace[i + 1].stock_nb =
                   FAdd(FSub(Trace[i].stock_nb, Trace[i].redemptions_nb),
                        FMul(Trace[i].shares_nb, Trace[i].gfn))
            /\ Trace[i + 1].stock_tips =
                   FAdd(FSub(Trace[i].stock_tips, Trace[i].redemptions_tips),
                        FMul(Trace[i].shares_tips, Trace[i].gfn))

\* a returned trace of three months whose stocks, redemptions and issuance
\* are all finite and not zero
C2_Witness ==
    /\ Returned
    /\ Len(Trace) >= 3
    /\ \A i \in Months(Trace) :
        /\ RowFinite(Trace[i])
        /\ \A f \in {"stock_short", "stock_nb", "stock_tips", "redemptions_nb",
                     "redemptions_tips", "shares_short", "shares_nb", "gfn"} :
               Trace[i][f] # Zero

\* C3: a returned trace has one row per element of the index the caller
\* passed, in the order of the index, and row i is dated with the month of the
\* i-th element.
C3_OneRowPerMonthInOrder ==
    Returned =>
        /\ Len(Trace) = Len(args.index)
        /\ \A i \in Months(Trace) : Trace[i].date = ToMonthStart(args.index[i])

\* a returned trace for an index of three months, and one for an index that is
\* not in calendar order and holds a mid-month timestamp
C3_Witness ==
    /\ Returned
    /\ Len(Trace) >= 3
    /\ Trace[1].date < Trace[2].date

C3_WitnessUnordered ==
    /\ Returned
    /\ Len(Trace) = 2
    /\ args.index[1] > args.index[2]
    /\ ToMonthStart(args.index[2]) # args.index[2]

\* C4: in every row of a returned trace no stock and no interest field is
\* negative.
C4_NonNegativity ==
    Returned =>
        \A i \in Months(Trace) :
            \A f \in {"stock_short", "stock_nb", "stock_tips", "interest_short",
                      "interest_nb", "interest_tips", "interest_total"} :
                ~IsNegative(Trace[i][f])

\* C5: in every row of a returned trace 0 <= redemptions_b <= stock_b for nb
\* and tips, and redemptions_short is stock_short.
C5_RedemptionBound ==
    Returned =>
        \A i \in Months(Trace) :
            /\ FLe(Zero, Trace[i].redemptions_nb)
            /\ FLe(Trace[i].redemptions_nb, Trace[i].stock_nb)
            /\ FLe(Zero, Trace[i].redemptions_tips)
            /\ FLe(Trace[i].redemptions_tips, Trace[i].stock_tips)
            /\ Trace[i].redemptions_short = Trace[i].stock_short

\* C6: in every row of a returned trace interest_total is interest_short +
\* interest_nb + interest_tips, with or without existing-coupon overrides.
C6_InterestAdditivity ==
    Returned =>
        \A i \in Months(Trace) :
            Trace[i].interest_total =
                Sum3(Trace[i].interest_short, Trace[i].interest_nb,
                     Trace[i].interest_tips)

\* a returned trace of two months computed with both overrides, each different
\* from the provider's rate, with interest on every bucket in the first month
C6_Witness ==
    /\ Returned
    /\ Len(Trace) >= 2
    /\ args.coupon_nb_existing_annual # None
    /\ args.coupon_tips_existing_annual # None
    /\ args.coupon_nb_existing_annual # rates[1].nb
    /\ args.coupon_tips_existing_annual # rates[1].tips
    /\ Trace[1].interest_tips # Zero
    /\ \A i \in Months(Trace) :
        /\ RowFinite(Trace[i])
        /\ Trace[i].interest_short # Zero
        /\ Trace[i].interest_nb # Zero


\* the new issuance of month i of the current call, all three buckets together
IssuedTotal(i) == Sum3(issued[i][1], issued[i][2], issued[i][3])
ShareTotal(row) == Sum3(row.shares_short, row.shares_nb, row.shares_tips)

\* C7 as claimed: in every month with finite amounts, the new issuance of
\* each bucket is shares_b x gfn and the three amounts together are gfn.
C7_IssuanceCoversGfn ==
    Returned =>
        \A i \in Months(Trace) :
            RowFinite(Trace[i]) /\ IsRep(IssuedTotal(i)) =>
                /\ issued[i][1] = FMul(Trace[i].shares_short, Trace[i].gfn)
                /\ issued[i][2] = FMul(Trace[i].shares_nb, Trace[i].gfn)
                /\ issued[i][3] = FMul(Trace[i].shares_tips, Trace[i].gfn)
                /\ IssuedTotal(i) = Trace[i].gfn

\* C7 as amended: in every month with finite amounts, the new issuance of
\* each bucket is shares_b x gfn, and the three amounts together exceed gfn by
\* (shares_short + shares_nb + shares_tips - 1) x gfn: they are gfn when the
\* shares of the month sum to exactly 1, and within 1e-6 x |gfn| of it
\* otherwise.
C7_IssuanceIsShareOfGfn ==
    Returned =>
        \A i \in Months(Trace) :
            RowFinite(Trace[i]) /\ IsRep(IssuedTotal(i)) =>
                /\ issued[i][1] = FMul(Trace[i].shares_short, Trace[i].gfn)
                /\ issued[i][2] = FMul(Trace[i].shares_nb, Trace[i].gfn)
                /\ issued[i][3] = FMul(Trace[i].shares_tips, Trace[i].gfn)
                /\ FSub(IssuedTotal(i), Trace[i].gfn) =
                       FMul(FSub(ShareTotal(Trace[i]), One), Trace[i].gfn)
                /\ WithinShareTol(ShareTotal(Trace[i]))
                /\ ShareTotal(Trace[i]) = One => IssuedTotal(i) = Trace[i].gfn

\* a returned trace with a month whose shares sum to 1 + 2^-20 and whose
\* issuance is more than its gfn, and a month whose shares sum to 1, both with
\* a gfn that is not zero
C7_Witness ==
    /\ Returned
    /\ \E i \in Months(Trace) :
        /\ RowFinite(Trace[i]) /\ IsRep(IssuedTotal(i))
        /\ ShareTotal(Trace[i]) # One
        /\ IssuedTotal(i) # Trace[i].gfn
    /\ \E i \in Months(Trace) :
        /\ RowFinite(Trace[i]) /\ IsRep(IssuedTotal(i))
        /\ ShareTotal(Trace[i]) = One
        /\ Trace[i].gfn # Zero
        /\ IsNegative(Trace[i].gfn)

\* C8: a call of run with the arguments and the engine of the call before it
\* hands back what that call handed back: the same trace, or nothing when that
\* call raised.
C8_Determinism ==
    calls >= 2 /\ pc \in {"returned", "raised"} => result = prev

\* a second call that returned a trace of two months or more
C8_Witness ==
    /\ calls = 2
    /\ Returned
    /\ Len(Trace) >= 2
    /\ prev # None

\* C9: in every row a policy's get returned, and in every row of a returned
\* trace, each share is in [0,1] and the three shares sum to 1 within 1e-6.
C9_ShareNormalisation ==
    /\ \A i \in 1..Len(shares) :
        /\ \A v \in {shares[i].short, shares[i].nb, shares[i].tips} :
               FLe(Zero, v) /\ FLe(v, One)
        /\ WithinShareTol(Sum3(shares[i].short, shares[i].nb, shares[i].tips))
    /\ Returned =>
        \A i \in Months(Trace) :
            /\ \A v \in {Trace[i].shares_short, Trace[i].shares_nb, Trace[i].shares_tips} :
                   FLe(Zero, v) /\ FLe(v, One)
            /\ WithinShareTol(ShareTotal(Trace[i]))

\* a returned trace of a piecewise policy with a month whose shares sum to
\* exactly 1 and a month whose shares sum to 1 + 2^-20
C9_Witness ==
    /\ Returned
    /\ engine.issuance_policy.kind = "piecewise"
    /\ \E i \in Months(Trace) : ShareTotal(Trace[i]) = One
    /\ \E i \in Months(Trace) : ShareTotal(Trace[i]) # One

C9_WitnessFixed ==
    /\ Returned
    /\ engine.issuance_policy.kind = "fixed"
    /\ Len(Trace) >= 2
    /\ ShareTotal(Trace[1]) # One

\* C10: no returned trace holds a NaN or an infinite value.
C10_NoNonFiniteRow ==
    Returned => \A i \in Months(Trace) : RowFinite(Trace[i])

-----------------------------------------------------------------------------
(* C11 - C20 *)

\* C11: a call of run that failed, in a provider lookup or in any step of any
\* month, raised its error to the caller and handed back no trace, whatever
\* rows it had computed for earlier months.
C11_NoPartialTrace ==
    pc = "raised" => error # "none" /\ result = None

\* a call that failed in its second month, with the row of the first month
\* already computed
C11_Witness ==
    /\ pc = "raised"
    /\ Len(rows) >= 1
    /\ pos < Len(idx)

\* the months of the index the caller passed that the CSV provider's table
\* does not hold
Uncovered ==
    { ToMonthStart(args.index[i]) : i \in 1..Len(args.index) } \
        { engine.rates_provider._df[j].date : j \in 1..Len(engine.rates_provider._df) }

C12_WitnessCovered ==
    /\ engine.rates_provider.kind = "csv"
    /\ Returned
    /\ Len(Trace) >= 2
    /\ Trace[1].interest_short # Trace[2].interest_short

\* the share triples a policy's constructor is given
CtorShares ==
    IF args.cls = "FixedSharesPolicy" THEN {args.ctor}
    ELSE { [short |-> args.ctor[i].short, nb |-> args.ctor[i].nb,
            tips |-> args.ctor[i].tips] : i \in 1..Len(args.ctor) }

\* each share is a finite float in [0,1] and the three sum to 1 within 1e-6
ValidShares(v) ==
    /\ \A x \in {v.short, v.nb, v.tips} : IsFinite(x) /\ FLe(Zero, x) /\ FLe(x, One)
    /\ WithinShareTol(Sum3(v.short, v.nb, v.tips))

\* C13: the constructor of a FixedSharesPolicy, or of a PiecewiseSharesPolicy
\* with a segment, given a share outside [0,1] or not finite, or three shares
\* that do not sum to 1 within 1e-6, raises ValueError and no object exists;
\* the shares of every policy object that exists are valid.
C13_InvalidSharesRejected ==
    args.op = "get" /\ args.cls \in {"FixedSharesPolicy", "PiecewiseSharesPolicy"} =>
        /\ pc # "input" /\ (\E v \in CtorShares : ~ValidShares(v)) =>
               pc = "raised" /\ error = "ValueError" /\ engine = None
        /\ engine # None => \A v \in CtorShares : ValidShares(v)

\* a constructor that raised on a second segment whose shares are all in [0,1]
\* and sum to 3/2, after a valid first segment
C13_Witness ==
    /\ args.op = "get" /\ args.cls = "PiecewiseSharesPolicy"
    /\ pc = "raised" /\ error = "ValueError"
    /\ Len(args.ctor) = 2
    /\ ValidShares(args.ctor[1])
    /\ Sum3(args.ctor[2].short, args.ctor[2].nb, args.ctor[2].tips) = Q(3, 2)

\* a FixedSharesPolicy constructor that raised on a NaN share, and one on a
\* share of -1/2 among shares that sum to 1
C13_WitnessNaN ==
    /\ args.op = "get" /\ args.cls = "FixedSharesPolicy"
    /\ pc = "raised"
    /\ args.ctor = [short |-> NaN, nb |-> Half, tips |-> Half]

C13_WitnessNegative ==
    /\ args.op = "get" /\ args.cls = "FixedSharesPolicy"
    /\ pc = "raised"
    /\ args.ctor = [short |-> Half, nb |-> One, tips |-> FNeg(Half)]

\* the table a get returned, and the shares of its row i
Table == result.df
RowShares(i) == <<Table[i].short, Table[i].nb, Table[i].tips>>
SegShares(seg) == <<seg.short, seg.nb, seg.tips>>
StartMonth(seg) == ToMonthStart(seg.start)

\* the segments given to the constructor that are effective in month d
Effective(d) == { j \in 1..Len(args.ctor) : StartMonth(args.ctor[j]) <= d }

PiecewiseReturned ==
    args.op = "get" /\ args.cls = "PiecewiseSharesPolicy" /\ pc = "returned"

\* C14: the table PiecewiseSharesPolicy.get returns has one row per queried
\* month, and the row of a month in which some segment is effective holds the
\* shares of a segment effective in that month with the latest start month.
C14_LatestSegmentWins ==
    PiecewiseReturned =>
        /\ Len(Table) = Len(args.index)
        /\ \A i \in 1..Len(Table) :
            /\ Table[i].date = ToMonthStart(args.index[i])
            /\ Effective(Table[i].date) # {} =>
                   \E j \in Effective(Table[i].date) :
                       /\ \A k \in Effective(Table[i].date) :
                              StartMonth(args.ctor[k]) <= StartMonth(args.ctor[j])
                       /\ RowShares(i) = SegShares(args.ctor[j])

\* the scenario: segment A effective at M0 and a different segment B at M0+2,
\* queried for the four months from M0: A, A, B, B
C14_Witness ==
    /\ PiecewiseReturned
    /\ args.index = build_month_index(0, 4)
    /\ Len(args.ctor) = 2
    /\ args.ctor[1].start = 0 /\ args.ctor[2].start = 4
    /\ SegShares(args.ctor[1]) # SegShares(args.ctor[2])
    /\ RowShares(1) = SegShares(args.ctor[1])
    /\ RowShares(2) = SegShares(args.ctor[1])
    /\ RowShares(3) = SegShares(args.ctor[2])
    /\ RowShares(4) = SegShares(args.ctor[2])

LastOfLatest(d) ==
    CHOOSE j \in Effective(d) :
        \A k \in Effective(d) :
            \/ StartMonth(args.ctor[k]) < StartMonth(args.ctor[j])
            \/ StartMonth(args.ctor[k]) = StartMonth(args.ctor[j]) /\ k <= j

\* C16: the segments a PiecewiseSharesPolicy holds after construction are the
\* segments of the input list in the order of their start months; and in the
\* table get returns, a month in which some segment is effective holds the
\* shares of the segment with the latest start month, the last one in the
\* input list when several segments have that start month.
C16_SortedAndLastDuplicateWins ==
    /\ args.op = "get" /\ args.cls = "PiecewiseSharesPolicy" /\ engine # None =>
        LET segs == engine.object._segments
        IN  /\ Len(segs) = Len(args.ctor)
            /\ \A i \in 1..(Len(segs) - 1) : segs[i].start <= segs[i + 1].start
            /\ \A j \in 1..Len(args.ctor) :
                   Cardinality({ i \in 1..Len(segs) :
                       /\ segs[i].start = StartMonth(args.ctor[j])
                       /\ segs[i].snt = SegShares(args.ctor[j]) })
                   = Cardinality({ k \in 1..Len(args.ctor) :
                       /\ StartMonth(args.ctor[k]) = StartMonth(args.ctor[j])
                       /\ SegShares(args.ctor[k]) = SegShares(args.ctor[j]) })
    /\ PiecewiseReturned =>
        \A i \in 1..Len(Table) :
            Effective(Table[i].date) # {} =>
                RowShares(i) = SegShares(args.ctor[LastOfLatest(Table[i].date)])

\* three segments with the same start month and different shares, given after
\* none earlier: the months from that start on hold the shares of the third
C16_Witness ==
    /\ PiecewiseReturned
    /\ Len(args.ctor) = 3
    /\ \A j \in 1..3 : StartMonth(args.ctor[j]) = 4
    /\ SegShares(args.ctor[1]) # SegShares(args.ctor[3])
    /\ SegShares(args.ctor[2]) # SegShares(args.ctor[3])
    /\ \E i \in 1..Len(Table) :
           Table[i].date >= 4 /\ RowShares(i) = SegShares(args.ctor[3])

\* segments given latest first, held earliest first
C16_WitnessUnsorted ==
    /\ PiecewiseReturned
    /\ Len(args.ctor) = 3
    /\ StartMonth(args.ctor[3]) < StartMonth(args.ctor[1])
    /\ engine.object._segments[1].snt = SegShares(args.ctor[3])

ConstantQueried ==
    args.op = "get" /\ args.cls = "ConstantRatesProvider" /\ pc \in {"returned", "raised"}

\* C17: ConstantRatesProvider.get returns a table of one row per requested
\* month, each row holding the three rates given to the constructor; when one
\* of these is NaN or infinite it raises ValueError and returns no table.
C17_ConstantRates ==
    ConstantQueried =>
        IF \E x \in {args.ctor.short, args.ctor.nb, args.ctor.tips} : ~IsFinite(x)
        THEN pc = "raised" /\ error = "ValueError" /\ result = None
        ELSE /\ pc = "returned"
             /\ Len(Table) = Len(args.index)
             /\ \A i \in 1..Len(Table) :
                 /\ Table[i].date = ToMonthStart(args.index[i])
                 /\ Table[i].short = args.ctor.short
                 /\ Table[i].nb = args.ctor.nb
                 /\ Table[i].tips = args.ctor.tips

\* a table of three months with three different rates, one of them negative
C17_Witness ==
    /\ ConstantQueried
    /\ pc = "returned"
    /\ Len(Table) = 3
    /\ Table[1].short # Table[1].nb
    /\ Table[1].nb # Table[1].tips
    /\ Table[1].short # Table[1].tips
    /\ IsNegative(Table[3].tips)

\* a get that raised because the tips rate alone is infinite
C17_WitnessRaised ==
    /\ ConstantQueried
    /\ pc = "raised"
    /\ IsFinite(args.ctor.short) /\ IsFinite(args.ctor.nb)
    /\ args.ctor.tips = NegInf

FiscalYearQueried ==
    /\ args.op = "get" /\ args.cls = "FiscalYearVariableRatesProvider"
    /\ pc \in {"returned", "raised"}
    /\ \A b \in {"short", "nb", "tips"} : DOMAIN args.ctor[b] # {}

\* the fiscal year of a month as the claim states it: October to December
\* belong to the fiscal year of the next calendar year
ClaimedFiscalYear(ts) ==
    IF MonthOfYear(ts) \in {10, 11, 12} THEN YearOf(ts) + 1 ELSE YearOf(ts)

\* the years of a bucket's map not after fiscal year fy
KnownUpTo(by_year, fy) == { y \in DOMAIN by_year : y <= fy }

\* C18: a get of the fiscal-year-variable provider, every bucket of which has
\* a rate for some year, returns one row per month of the index with a finite
\* rate per bucket; a bucket's rate in a month is the rate its map gives for
\* the latest year not after the month's fiscal year, when there is one.
C18_FiscalYearCarryForward ==
    FiscalYearQueried =>
        /\ pc = "returned"
        /\ Len(Table) = Len(args.index)
        /\ \A i \in 1..Len(Table) :
            /\ Table[i].date = ToMonthStart(args.index[i])
            /\ \A b \in {"short", "nb", "tips"} :
                LET fy == ClaimedFiscalYear(args.index[i])
                    known == KnownUpTo(args.ctor[b], fy)
                IN  /\ IsFinite(Table[i][b])
                    /\ known # {} =>
                           \E y \in known :
                               /\ \A z \in known : z <= y
                               /\ Table[i][b] = args.ctor[b][y]

\* an index over September and October 2025 where the short bucket has a rate
\* for both fiscal years and changes rate in October, and the nb bucket has
\* none for fiscal year 2026 and keeps the rate of 2025
C18_Witness ==
    /\ FiscalYearQueried
    /\ pc = "returned"
    /\ DOMAIN args.ctor.short = {2025, 2026}
    /\ DOMAIN args.ctor.nb = {2025}
    /\ \E i \in 1..(Len(Table) - 1) :
        /\ MonthOfYear(Table[i].date) = 9
        /\ MonthOfYear(Table[i + 1].date) = 10
        /\ Table[i].short = args.ctor.short[2025]
        /\ Table[i + 1].short = args.ctor.short[2026]
        /\ Table[i].short # Table[i + 1].short
        /\ Table[i + 1].nb = args.ctor.nb[2025]

\* the annual rate of a bucket as C19 states it: the override when one is
\* supplied, the rate of the row when it is absent
AnnualRate(override, row_rate) == IF override = None THEN row_rate ELSE override

\* stock x (annual / 12)
MonthlyInterest(stock, annual) == FMul(stock, FMul(annual, Q(1, 12)))

\* C19: compute_interest returns, per bucket, opening stock x (annual rate /
\* 12): the row's short rate for short; for nb and tips the existing-coupon
\* override when one is supplied, 0.0 included, and the row's rate otherwise.
C19_InterestPerBucket ==
    args.op = "compute_interest" /\ pc = "returned" =>
        /\ result.acc.interest_short =
               MonthlyInterest(args.state.stock_short, args.rates_row.short)
        /\ result.acc.interest_nb =
               MonthlyInterest(args.state.stock_nb,
                   AnnualRate(args.coupon_nb_existing_annual, args.rates_row.nb))
        /\ result.acc.interest_tips =
               MonthlyInterest(args.state.stock_tips,
                   AnnualRate(args.coupon_tips_existing_annual, args.rates_row.tips))

\* interest computed with an nb override of 0.0 and no tips override, on
\* stocks and row rates that are not zero
C19_Witness ==
    /\ args.op = "compute_interest" /\ pc = "returned"
    /\ args.coupon_nb_existing_annual = Zero
    /\ args.coupon_tips_existing_annual = None
    /\ args.state.stock_short = F(4) /\ args.state.stock_nb = F(4)
    /\ args.state.stock_tips = F(2)
    /\ args.rates_row.nb = F(6)
    /\ result.acc.interest_short = F(1)
    /\ result.acc.interest_nb = Zero
    /\ result.acc.interest_tips = Half

\* interest computed with both overrides, each different from the row's rate
C19_WitnessOverrides ==
    /\ args.op = "compute_interest" /\ pc = "returned"
    /\ args.coupon_nb_existing_annual = F(12)
    /\ args.coupon_tips_existing_annual = F(6)
    /\ args.state = DebtState(F(4), F(4), F(2))
    /\ args.rates_row.nb = F(6)
    /\ result.acc.interest_nb = F(4)
    /\ result.acc.interest_tips = F(1)

\* a finite float >= 0, and a finite float in [0,1]
NonNegative(x) == IsFinite(x) /\ x.n >= 0
UnitInterval(x) == NonNegative(x) /\ x.n <= x.d

ValidTransitionArgs ==
    /\ NonNegative(args.state.stock_short)
    /\ NonNegative(args.state.stock_nb)
    /\ NonNegative(args.state.stock_tips)
    /\ \A i \in 1..3 : NonNegative(args.new[i])
    /\ UnitInterval(args.decay_nb)
    /\ UnitInterval(args.decay_tips)

\* C20: for finite stocks >= 0, decays in [0,1] and finite new issuance >= 0,
\* the state update_state returns has three stocks >= 0 and a short stock
\* equal to new_short.
C20_UpdateStateNonNegative ==
    args.op = "update_state" /\ pc = "returned" /\ ValidTransitionArgs =>
        /\ NonNegative(result.state.stock_short)
        /\ NonNegative(result.state.stock_nb)
        /\ NonNegative(result.state.stock_tips)
        /\ result.state.stock_short = args.new[1]

\* valid arguments with a short stock that redeems whole, a tips stock that a
\* decay of 1 empties and an nb stock that a decay of 1/100 reduces
C20_Witness ==
    /\ args.op = "update_state" /\ pc = "returned" /\ ValidTransitionArgs
    /\ args.state = DebtState(F(4), F(4), F(2))
    /\ args.new = <<F(5), Zero, Half>>
    /\ args.decay_nb = Q(1, 100) /\ args.decay_tips = One
    /\ result.state = DebtState(F(5), Q(99, 25), Half)

\* an nb decay of 3/2, outside [0,1], drives the nb stock negative
C20_WitnessInvalidDecay ==
    /\ args.op = "update_state" /\ pc = "returned"
    /\ args.decay_nb = Q(3, 2)
    /\ args.state.stock_nb = F(4) /\ args.new[2] = Zero
    /\ IsNegative(result.state.stock_nb)

-----------------------------------------------------------------------------
(* C21 - C30 *)

\* C21: during and after a call of run, the caller's start_state object holds
\* the stocks it was passed with; every month's transition has made one new
\* object; and the object that was the state of month i still holds the
\* opening stocks recorded in row i.
C21_NoInPlaceUpdate ==
    heap # <<>> /\ pc \in {"loop", "returned"} =>
        /\ heap[1] = args.start_state
        /\ Len(heap) = pos + 1
        /\ \A i \in 1..Len(rows) :
               heap[i] = DebtState(rows[i].stock_short, rows[i].stock_nb,
                                   rows[i].stock_tips)

\* a returned trace of three months in which every transition changed the
\* stocks
C21_Witness ==
    /\ Returned
    /\ Len(Trace) >= 3
    /\ \A i \in 1..(Len(heap) - 1) : heap[i] # heap[i + 1]
    /\ heap[Len(heap)] # args.start_state

\* the loop of run after pos months: pos rows, pos transitions, and row i is
\* the row of the i-th month of the index
LoopInOrder ==
    pc \in {"loop", "returned"} =>
        /\ pos <= Len(idx)
        /\ Len(idx) = Len(args.index)
        /\ Len(rows) = pos
        /\ Len(heap) = pos + 1
        /\ \A i \in 1..pos : rows[i].date = ToMonthStart(args.index[i])
        /\ pc = "returned" => pos = Len(args.index)

\* C22: a call of run takes the months of the index one by one in index
\* order, one transition per month, none skipped or repeated; a call that
\* returns has made exactly as many transitions as the index has months; and
\* after the last month of the index the loop is left: the call can finish
\* and can take no further month.
C22_OneTransitionPerMonth ==
    /\ []LoopInOrder
    /\ [](pc = "loop" /\ pos = Len(idx) => ENABLED Finish /\ ~ENABLED Month)
    /\ [][pc = "loop" /\ pc' = "loop" => pos' = pos + 1 /\ Len(heap') = Len(heap) + 1]_vars

\* a returned call on an index of three months that is at its third
\* transition done
C22_Witness ==
    /\ Returned
    /\ Len(args.index) = 3
    /\ pos = 3
    /\ Len(heap) = 4
    /\ rows[1].date < rows[2].date /\ rows[2].date < rows[3].date

\* C23: in every row of the trace of a call made without an other-interest
\* series, other_interest is 0.0 and gfn is the month's primary deficit (as
\* aligned to the index) + interest_total + redemptions_total.
C23_OtherInterestDefaultsToZero ==
    Returned /\ args.other_interest_monthly = None =>
        \A i \in Months(Trace) :
            /\ Trace[i].other_interest = Zero
            /\ Trace[i].gfn =
                   FAdd(FAdd(deficits[Trace[i].date], Trace[i].interest_total),
                        Trace[i].redemptions_total)

\* a trace of two months without an other-interest series, with a deficit,
\* interest and redemptions that are finite and not zero in the first month
C23_Witness ==
    /\ Returned
    /\ args.other_interest_monthly = None
    /\ Len(Trace) >= 2
    /\ RowFinite(Trace[1]) /\ RowFinite(Trace[2])
    /\ deficits[Trace[1].date] # Zero
    /\ Trace[1].interest_total # Zero
    /\ Trace[1].redemptions_total # Zero
    /\ Trace[1].gfn # Trace[1].interest_total

\* the suffix of the first name of ts that is not among files: 0 is ts itself
FirstFree(ts, files) ==
    CHOOSE n \in 0..Cardinality(files) :
        /\ Join(Base, IF n = 0 THEN ts ELSE AltName(ts, n)) \notin files
        /\ \A m \in 0..(n - 1) :
               Join(Base, IF m = 0 THEN ts ELSE AltName(ts, m)) \in files

\* C24: the paths returned on one base directory are pairwise distinct and
\* were created by their call (absent when the call began, present after); a
\* call that no other call overlaps never raises, returns base/<ts> when that
\* did not exist when it began, and otherwise base/<ts>-N for the smallest
\* N >= 1 whose directory did not exist.
C24_DistinctNewDirectories ==
    /\ \A i, j \in 1..Len(returned) :
           i # j => returned[i].path # returned[j].path
    /\ \A i \in 1..Len(returned) :
           /\ returned[i].path \notin returned[i].before
           /\ returned[i].path \in fs
           /\ ~returned[i].raced =>
                  /\ Join(Base, returned[i].ts) \notin returned[i].before
                         => returned[i].path = Join(Base, returned[i].ts)
                  /\ LET n == FirstFree(returned[i].ts, returned[i].before) IN
                         returned[i].path =
                             Join(Base, IF n = 0 THEN returned[i].ts
                                        ELSE AltName(returned[i].ts, n))
    /\ \A p \in Callers : ~procs[p].raced => procs[p].pc # "raised"

\* three calls, one after the other, with the same timestamp on a base
\* directory that held none of its names: base/<ts>, base/<ts>-1, base/<ts>-2
C24_Witness ==
    /\ Len(returned) = 3
    /\ \A i \in 1..3 : ~returned[i].raced /\ returned[i].ts = "20250910T143016Z"
    /\ returned[1].path = "output/20250910T143016Z"
    /\ returned[2].path = "output/20250910T143016Z-1"
    /\ returned[3].path = "output/20250910T143016Z-2"

\* a call after an earlier run's directory was removed fills the gap: ts and
\* ts-2 exist, and the call returns ts-1
C24_WitnessGap ==
    /\ Len(returned) >= 1
    /\ ~returned[1].raced
    /\ returned[1].before = {Base, "output/20250910T143015Z", "output/20250910T143015Z-2"}
    /\ returned[1].path = "output/20250910T143015Z-1"

\* C30: two calls that race with the same timestamp never both return the
\* same path, and a caller that reaches mkdir after another call created its
\* path raises FileExistsError, returns nothing and creates nothing.
C30_RaceLoserFails ==
    /\ [](\A i, j \in 1..Len(returned) :
              i # j /\ returned[i].ts = returned[j].ts
                  => returned[i].path # returned[j].path)
    /\ [][\A p \in Callers :
              /\ procs[p].pc \in {"candidate_mkdir", "alt_mkdir"}
              /\ Target(procs[p]) \in fs
              /\ procs'[p].pc # procs[p].pc
              => /\ procs'[p].pc = "raised"
                 /\ procs'[p].error = "FileExistsError"
                 /\ returned' = returned
                 /\ fs' = fs]_vars

\* both callers saw that base/<ts> was missing; one created and returned it,
\* the other raised FileExistsError on the same path
C30_Witness ==
    \E p, q \in Callers :
        /\ p # q
        /\ procs[p].pc = "raised"
        /\ procs[p].error = "FileExistsError"
        /\ procs[p].suffix = 0
        /\ procs[q].pc = "returned"
        /\ \E i \in 1..Len(returned) :
               /\ returned[i].caller = q
               /\ returned[i].raced
               /\ returned[i].path = Target(procs[p])

\* C25: the trace file changes only in the step that leaves the loop after
\* the row of the last month was recorded, and then holds the returned trace;
\* it is written at most once per call; a step that raises writes nothing.
C25_PersistOnceAfterLoop ==
    /\ [](Writes(disk) <= IF pc = "loop" THEN calls - 1 ELSE calls)
    /\ [][disk' # disk =>
              /\ pc = "loop" /\ pc' = "returned"
              /\ pos = Len(idx) /\ Len(rows) = Len(args.index)
              /\ rows[Len(rows)].date = ToMonthStart(args.index[Len(args.index)])
              /\ Writes(disk') = Writes(disk) + 1
              /\ disk'.df = rows
              /\ result' = [df |-> rows]]_vars
    /\ [][pc' = "raised" => disk' = disk]_vars

\* two calls of three months each returned: the file was written twice
C25_Witness ==
    /\ Returned
    /\ calls = 2
    /\ Len(Trace) = 3
    /\ Writes(disk) = 2
    /\ disk.df = Trace

\* a call failed inside the loop after recording a row: there is no file
C25_WitnessFailedInLoop ==
    /\ pc = "raised"
    /\ error = "TypeError"
    /\ pos >= 1
    /\ calls = 1
    /\ disk = None

\* the state after month i of the call in progress: the next object on the heap
StateAfter(i) == heap[i + 1]

\* stock_short + stock_nb + stock_tips of a state, as DebtState.total adds them
TotalStock(st) == Sum3(st.stock_short, st.stock_nb, st.stock_tips)

\* primary_deficit + interest_total + other_interest of the month of a row
NetBorrowing(row) ==
    FAdd(FAdd(deficits[row.date], row.interest_total), row.other_interest)

\* the amounts of month i are finite and so are the totals around it
MonthFinite(i) ==
    /\ RowFinite(rows[i])
    /\ IsFinite(deficits[rows[i].date])
    /\ IsFinite(TotalStock(heap[i]))
    /\ IsFinite(TotalStock(StateAfter(i)))
    /\ IsFinite(NetBorrowing(rows[i]))

\* C26: in every month with finite amounts whose shares sum to exactly 1, the
\* total stock after the transition minus the total opening stock equals
\* primary_deficit + interest_total + other_interest of the month.
C26_TotalGrowsByDeficitPlusInterest ==
    pc \in {"loop", "returned"} =>
        \A i \in 1..Len(rows) :
            MonthFinite(i) /\ ShareTotal(rows[i]) = One =>
                FSub(TotalStock(StateAfter(i)), TotalStock(heap[i]))
                    = NetBorrowing(rows[i])

\* three months with shares 1/2, 1/2, 0, decays 1/2 and 1 and an other-interest
\* series: redemptions and issuance are not zero and the total grows by the
\* deficit plus all interest
C26_Witness ==
    /\ Returned
    /\ Len(rows) = 3
    /\ args.decay_nb # args.decay_tips
    /\ args.other_interest_monthly # None
    /\ \A i \in 1..3 :
           /\ MonthFinite(i)
           /\ ShareTotal(rows[i]) = One
           /\ rows[i].redemptions_total # Zero
           /\ rows[i].interest_total # Zero
           /\ TotalStock(StateAfter(i)) # TotalStock(heap[i])
    /\ deficits[rows[1].date] # Zero

\* the start state is finite and >= 0, every rate of the provider's table and
\* every coupon override given is finite and >= 0, the decays are in [0,1],
\* every row of the policy's table is valid, and primary_deficit +
\* other_interest is finite and >= 0 in every month of the index
SoundInputs ==
    /\ \A x \in {args.start_state.stock_short, args.start_state.stock_nb,
                 args.start_state.stock_tips} : NonNegative(x)
    /\ \A i \in 1..Len(rates) :
           NonNegative(rates[i].short) /\ NonNegative(rates[i].nb)
               /\ NonNegative(rates[i].tips)
    /\ args.coupon_nb_existing_annual # None
           => NonNegative(args.coupon_nb_existing_annual)
    /\ args.coupon_tips_existing_annual # None
           => NonNegative(args.coupon_tips_existing_annual)
    /\ UnitInterval(args.decay_nb) /\ UnitInterval(args.decay_tips)
    /\ \A i \in 1..Len(shares) : ValidShares(shares[i])
    /\ \A i \in 1..Len(idx) :
           /\ IsFinite(deficits[idx[i]]) /\ IsFinite(other[idx[i]])
           /\ NonNegative(FAdd(deficits[idx[i]], other[idx[i]]))

AmountFields ==
    {"stock_short", "stock_nb", "stock_tips", "interest_short", "interest_nb",
     "interest_tips", "interest_total", "gfn", "redemptions_short",
     "redemptions_nb", "redemptions_tips", "redemptions_total"}

\* the stocks, interests, redemptions and GFN of month i, and the stocks the
\* month leaves, are >= 0
AmountsNonNegative(i) ==
    /\ \A f \in AmountFields : NonNegative(rows[i][f])
    /\ NonNegative(StateAfter(i).stock_short)
    /\ NonNegative(StateAfter(i).stock_nb)
    /\ NonNegative(StateAfter(i).stock_tips)

\* the total stock after month i is not below the total stock that opened it
TotalNotLower(i) ==
    IsFinite(TotalStock(heap[i])) /\ IsFinite(TotalStock(StateAfter(i))) =>
        FLe(TotalStock(heap[i]), TotalStock(StateAfter(i)))

\* C27 as stated: with sound inputs, every month's amounts are >= 0 and the
\* total stock never decreases from one month to the next.
C27_AsStated ==
    pc \in {"loop", "returned"} /\ SoundInputs =>
        \A i \in 1..Len(rows) : AmountsNonNegative(i) /\ TotalNotLower(i)

\* C27: with sound inputs, every month's amounts are >= 0, and the total stock
\* does not decrease in a month whose shares sum to at least 1.
C27_NonNegativeAndGrowing ==
    pc \in {"loop", "returned"} /\ SoundInputs =>
        \A i \in 1..Len(rows) :
            /\ AmountsNonNegative(i)
            /\ FLe(One, ShareTotal(rows[i])) => TotalNotLower(i)

\* three months with positive rates and shares summing to 1: interest accrues
\* and the total stock grows every month
C27_Witness ==
    /\ Returned
    /\ SoundInputs
    /\ Len(rows) = 3
    /\ \A i \in 1..3 :
           /\ ShareTotal(rows[i]) = One
           /\ rows[i].interest_total # Zero
           /\ rows[i].redemptions_total # Zero
           /\ IsFinite(TotalStock(StateAfter(i)))
           /\ TotalStock(heap[i]) # TotalStock(StateAfter(i))

\* zero rates, no deficit, shares 1 - 2^-20 in the first month: the total
\* stock recorded for the second month is below the one recorded for the first
C27_WitnessDecrease ==
    /\ Returned
    /\ SoundInputs
    /\ Len(rows) = 3
    /\ ShareTotal(rows[1]) # One /\ FLe(ShareTotal(rows[1]), One)
    /\ LET t1 == Sum3(rows[1].stock_short, rows[1].stock_nb, rows[1].stock_tips)
           t2 == Sum3(rows[2].stock_short, rows[2].stock_nb, rows[2].stock_tips)
       IN  IsFinite(t1) /\ IsFinite(t2) /\ t1 # t2 /\ FLe(t2, t1)

\* C28: in every month, the state the transition leaves is, per bucket, the
\* stock of the row minus the redemption recorded in the row plus the month's
\* new issuance: recorded and applied redemptions are the same amounts.
C28_RecordedRedemptionsApplied ==
    pc \in {"loop", "returned"} =>
        \A i \in 1..Len(rows) :
            /\ StateAfter(i).stock_short =
                   FAdd(FSub(rows[i].stock_short, rows[i].redemptions_short), issued[i][1])
            /\ StateAfter(i).stock_nb =
                   FAdd(FSub(rows[i].stock_nb, rows[i].redemptions_nb), issued[i][2])
            /\ StateAfter(i).stock_tips =
                   FAdd(FSub(rows[i].stock_tips, rows[i].redemptions_tips), issued[i][3])

\* three months with different decays for nb and tips: every bucket redeems in
\* the first month and nb redeems in every month
C28_Witness ==
    /\ Returned
    /\ Len(rows) = 3
    /\ args.decay_nb # args.decay_tips
    /\ \A i \in 1..3 : RowFinite(rows[i]) /\ rows[i].redemptions_nb # Zero
                           /\ rows[i].redemptions_short # Zero
    /\ rows[1].redemptions_tips # Zero
    /\ rows[1].redemptions_tips # FMul(rows[1].stock_tips, args.decay_nb)
    /\ StateAfter(3) = state

\* the same provider with other nb and tips rates: in the construction values
\* of a constant provider, in every row of the table of a CSV provider
VaryNbTips(provider, nb, tips) ==
    IF provider.kind = "constant"
    THEN [provider EXCEPT !.values.nb = nb, !.values.tips = tips]
    ELSE [provider EXCEPT !._df =
             [i \in 1..Len(provider._df) |->
                 [provider._df[i] EXCEPT !.nb = nb, !.tips = tips]]]

\* the loop of run from month p on, over the call's index, shares, deficits,
\* other interest and parameters, with the rates table given: the rows a run
\* with that table records, or the TypeError of a month with several rows
RECURSIVE ProjectFrom(_, _, _, _)
ProjectFrom(table, st, p, done) ==
    IF p = Len(idx) THEN Return(done)
    ELSE LET dt == MonthOf(idx, p)
             r_rows == Loc(table, dt)
             sh_row == Loc(shares, dt)[1]
         IN  IF Len(r_rows) # 1 THEN Raise("TypeError")
             ELSE LET acc == compute_interest(st, r_rows[1],
                                 args.coupon_nb_existing_annual,
                                 args.coupon_tips_existing_annual)
                      red == compute_redemptions(st, args.decay_nb, args.decay_tips)
                      red_total == FAdd(FAdd(red[1], red[2]), red[3])
                      gfn == Gfn(deficits[dt], acc.interest_total, other[dt], red_total)
                      row == TraceRow(dt, st, acc, other[dt], sh_row, gfn, red, red_total)
                      nxt == update_state(st, NewIssuance(sh_row.short, gfn),
                                          NewIssuance(sh_row.nb, gfn),
                                          NewIssuance(sh_row.tips, gfn),
                                          args.decay_nb, args.decay_tips)
                  IN  ProjectFrom(table, nxt, p + 1, Append(done, row))

\* the trace of the same call on an engine whose provider returned table
Replay(table) == ProjectFrom(table, args.start_state, 0, <<>>)

\* the nb and tips rates the other run's provider holds
OtherRates == {Zero, F(3), F(-3), NaN}

BothOverrides ==
    args.coupon_nb_existing_annual # None /\ args.coupon_tips_existing_annual # None

\* C29: the replay of a returned call is its trace, and when both coupon
\* overrides are supplied, the same call on a provider that differs only in
\* its nb and tips rates, if that provider returns a table at all, records
\* the identical trace.
C29_ProviderNbTipsIgnored ==
    Returned =>
        /\ Replay(rates) = Return(Trace)
        /\ BothOverrides =>
               \A nb \in OtherRates, tips \in OtherRates :
                   LET r2 == RatesGet(VaryNbTips(engine.rates_provider, nb, tips), idx)
                   IN  r2.ok => Replay(r2.value) = Return(Trace)

\* a returned call of three months with both overrides, nb and tips stocks
\* that earn interest at coupons other than the provider's rates, and another
\* provider whose table differs from the one the call used
C29_Witness ==
    /\ Returned
    /\ BothOverrides
    /\ Len(Trace) = 3
    /\ \A i \in 1..3 : RowFinite(Trace[i]) /\ Trace[i].interest_nb # Zero
    /\ Trace[1].interest_tips # Zero
    /\ rates[1].nb # args.coupon_nb_existing_annual
    /\ rates[1].tips # args.coupon_tips_existing_annual
    /\ \E nb \in OtherRates, tips \in OtherRates :
           LET r2 == RatesGet(VaryNbTips(engine.rates_provider, nb, tips), idx)
           IN  r2.ok /\ r2.value # rates /\ r2.value[1].nb # rates[1].nb
                     /\ r2.value[1].tips # rates[1].tips

=============================================================================
